---- MODULE Spec2Model ----
(***************************************************************************)
(* Atmospheric_refraction.py: the refraction correction of Saemundsson     *)
(* (1986) applied to an array of solar elevation angles, and the           *)
(* barometric formula applied to an array of altitudes.                    *)
(*                                                                         *)
(* Numbers.  The script computes in binary64.  The model computes in       *)
(* decimal fixed point with twelve fractional digits: a number is a        *)
(* record [k, s, m] with k = "fin", sign s and magnitude m, a sequence of  *)
(* base-10^4 limbs, least significant first, in units of 10^-12.  Every    *)
(* multiplication and division truncates to that unit, as every binary64   *)
(* operation rounds to its own.  k = "inf" and k = "nan" are the results   *)
(* numpy produces (with a warning, not an exception) for a division by     *)
(* zero and for the tangent of an infinity.                                *)
(***************************************************************************)
EXTENDS Integers, Sequences, FiniteSets, TLC

Base == 100 * 100

(* ---------------- magnitudes: naturals as limb sequences ---------------- *)
(* A magnitude is a sequence of limbs without a leading (last) zero.  Carries *)
(* and borrows are looked ahead rather than rippled, so an operation does not *)
(* recurse along the limbs.                                                   *)

Max(x, y) == IF x >= y THEN x ELSE y

\* the limb i of a, zero beyond its length
At(a, i) == IF i >= 1 /\ i <= Len(a) THEN a[i] ELSE 0

Trim(a) ==
  SubSeq(a, 1, Cardinality({i \in 1..Len(a) : \E j \in i..Len(a) : a[j] # 0}))

\* the carry into the limb i of the limb sums s: some lower limb overflows
\* and every limb between it and i passes a carry on
CarryIn(s, i) ==
  \E j \in 1..(i - 1) :
     s[j] >= Base /\ \A k \in (j + 1)..(i - 1) : s[k] = Base - 1

MAdd(a, b) ==
  LET s == [i \in 1..(Max(Len(a), Len(b)) + 1) |-> At(a, i) + At(b, i)]
  IN Trim([i \in 1..Len(s) |->
             (s[i] + (IF CarryIn(s, i) THEN 1 ELSE 0)) % Base])

\* the borrow from the limb i of the limb differences d
BorrowIn(d, i) ==
  \E j \in 1..(i - 1) :
     d[j] < 0 /\ \A k \in (j + 1)..(i - 1) : d[k] <= 0

\* a - b for a >= b
MSub(a, b) ==
  LET d == [i \in 1..Len(a) |-> a[i] - At(b, i)]
  IN Trim([i \in 1..Len(d) |->
             (d[i] - (IF BorrowIn(d, i) THEN 1 ELSE 0) + Base) % Base])

\* -1, 0, 1 as a < b, a = b, a > b
MCmp(a, b) ==
  IF Len(a) < Len(b) THEN -1
  ELSE IF Len(a) > Len(b) THEN 1
  ELSE IF a = b THEN 0
  ELSE IF \E i \in 1..Len(a) :
             a[i] < b[i] /\ \A k \in (i + 1)..Len(a) : a[k] = b[k]
       THEN -1
  ELSE 1

\* the magnitude sum of v[i] * Base^(i-1) for column sums v[i] < 2^31: each
\* column is split into its three base-Base digits
Norm(v) ==
  LET n  == Len(v)
      d0 == [i \in 1..n |-> v[i] % Base]
      d1 == [i \in 1..(n + 1) |-> IF i = 1 THEN 0 ELSE (v[i - 1] \div Base) % Base]
      d2 == [i \in 1..(n + 2) |-> IF i <= 2 THEN 0 ELSE v[i - 2] \div (Base * Base)]
  IN MAdd(MAdd(d0, d1), d2)

\* a * d for a one-word d (d <= 200000)
MulS(a, d) == Norm([i \in 1..Len(a) |-> a[i] * d])

\* the column k of the product a * b, for a of at most eight limbs
Col(a, b, k) ==
    At(a, 1) * At(b, k)     + At(a, 2) * At(b, k - 1)
  + At(a, 3) * At(b, k - 2) + At(a, 4) * At(b, k - 3)
  + At(a, 5) * At(b, k - 4) + At(a, 6) * At(b, k - 5)
  + At(a, 7) * At(b, k - 6) + At(a, 8) * At(b, k - 7)

MMul(a, b) ==
  IF a = <<>> \/ b = <<>> THEN <<>>
  ELSE Norm([k \in 1..(Len(a) + Len(b) - 1) |-> Col(a, b, k)])

Rev(s) == [i \in 1..Len(s) |-> s[Len(s) + 1 - i]]

\* the digits of a / d from the top limb i down, r the running remainder
RECURSIVE DivSRec(_, _, _, _)
DivSRec(a, d, i, r) ==
  IF i = 0 THEN <<>>
  ELSE LET t == r * Base + a[i]
       IN <<t \div d>> \o DivSRec(a, d, i - 1, t % d)

\* floor(a / d) for a one-word d (0 < d <= 200000)
MDivS(a, d) == Trim(Rev(DivSRec(a, d, Len(a), 0)))

\* the quotient digit of r / b from the estimate q (q >= the digit)
RECURSIVE Digit(_, _, _)
Digit(r, b, q) ==
  IF MCmp(MulS(b, q), r) <= 0 THEN q ELSE Digit(r, b, q - 1)

\* the estimate of the digit from the top limbs (the top limb of b is at least
\* Base / 2, so the estimate is at most 2 too large)
Estimate(r, b) ==
  LET n == Len(b)
      q == (At(r, n + 1) * Base + At(r, n)) \div b[n]
  IN IF q >= Base THEN Base - 1 ELSE q

\* the digits of a / b from the limb i down, rem the running remainder
RECURSIVE DivRec(_, _, _, _)
DivRec(a, b, i, rem) ==
  IF i = 0 THEN <<>>
  ELSE LET r == Trim(<<a[i]>> \o rem)
       IN IF MCmp(r, b) < 0 THEN <<0>> \o DivRec(a, b, i - 1, r)
          ELSE LET q == Digit(r, b, Estimate(r, b))
               IN <<q>> \o DivRec(a, b, i - 1, MSub(r, MulS(b, q)))

\* floor(a / b), b > 0: both are scaled so that the top limb of b is large
MDiv(a, b) ==
  IF Len(b) = 1 THEN MDivS(a, b[1])
  ELSE IF Len(a) < Len(b) THEN <<>>
  ELSE LET d  == Base \div (b[Len(b)] + 1)
           as == MulS(a, d)
           bs == MulS(b, d)
           n  == Len(bs)
       IN Trim(Rev(DivRec(as, bs, Len(as) - n + 1,
                          SubSeq(as, Len(as) - n + 2, Len(as)))))

(* ------------- numbers: fixed point, twelve decimal digits -------------- *)

Zero == [k |-> "fin", s |-> 1, m |-> <<>>]
NaN == [k |-> "nan", s |-> 1, m |-> <<>>]
Inf(sg) == [k |-> "inf", s |-> sg, m |-> <<>>]

Mk(sg, mag) == IF mag = <<>> THEN Zero ELSE [k |-> "fin", s |-> sg, m |-> mag]

IsFin(a) == a.k = "fin"

RECURSIVE Limbs(_)
Limbs(n) == IF n = 0 THEN <<>> ELSE <<n % Base>> \o Limbs(n \div Base)

\* the integer n as a number
FromInt(n) ==
  IF n = 0 THEN Zero
  ELSE Mk(IF n < 0 THEN -1 ELSE 1, <<0, 0, 0>> \o Limbs(IF n < 0 THEN -n ELSE n))

\* the decimal n / 10^4, n / 10^8 (a literal such as 5.11 or 0.0019279)
Dec4(n) ==
  IF n = 0 THEN Zero
  ELSE Mk(IF n < 0 THEN -1 ELSE 1, <<0, 0>> \o Limbs(IF n < 0 THEN -n ELSE n))
Dec8(n) ==
  IF n = 0 THEN Zero
  ELSE Mk(IF n < 0 THEN -1 ELSE 1, <<0>> \o Limbs(IF n < 0 THEN -n ELSE n))

FNeg(a) == IF a.k = "nan" THEN NaN
           ELSE IF a.k = "inf" THEN Inf(-a.s)
           ELSE Mk(-a.s, a.m)

FAdd(a, b) ==
  IF a.k = "nan" \/ b.k = "nan" THEN NaN
  ELSE IF a.k = "inf" /\ b.k = "inf" THEN (IF a.s = b.s THEN a ELSE NaN)
  ELSE IF a.k = "inf" THEN a
  ELSE IF b.k = "inf" THEN b
  ELSE IF a.s = b.s THEN Mk(a.s, MAdd(a.m, b.m))
  ELSE LET c == MCmp(a.m, b.m)
       IN IF c = 0 THEN Zero
          ELSE IF c > 0 THEN Mk(a.s, MSub(a.m, b.m))
          ELSE Mk(b.s, MSub(b.m, a.m))

FSub(a, b) == FAdd(a, FNeg(b))

Drop3(x) == IF Len(x) <= 3 THEN <<>> ELSE SubSeq(x, 4, Len(x))

FMul(a, b) ==
  IF a.k = "nan" \/ b.k = "nan" THEN NaN
  ELSE IF a.k = "inf" \/ b.k = "inf"
       THEN (IF a = Zero \/ b = Zero THEN NaN ELSE Inf(a.s * b.s))
  ELSE Mk(a.s * b.s, Drop3(MMul(a.m, b.m)))

\* a * 10^12 / b with the low zero limbs of b cancelled against the shift
RECURSIVE ShiftDiv(_, _, _)
ShiftDiv(am, bm, sh) ==
  IF sh > 0 /\ Head(bm) = 0 THEN ShiftDiv(am, Tail(bm), sh - 1)
  ELSE MDiv([i \in 1..sh |-> 0] \o am, bm)

FDiv(a, b) ==
  IF a.k = "nan" \/ b.k = "nan" THEN NaN
  ELSE IF b.k = "inf" THEN (IF a.k = "inf" THEN NaN ELSE Zero)
  ELSE IF a.k = "inf" THEN Inf(a.s * b.s)
  ELSE IF b = Zero THEN (IF a = Zero THEN NaN ELSE Inf(a.s))
  ELSE IF a = Zero THEN Zero
  ELSE Mk(a.s * b.s, ShiftDiv(a.m, b.m, 3))

\* a < b, a <= b: false when either is a nan, as in IEEE 754
FLt(a, b) ==
  IF a.k = "nan" \/ b.k = "nan" THEN FALSE
  ELSE IF a.k = "inf" THEN a.s = -1 /\ ~(b.k = "inf" /\ b.s = -1)
  ELSE IF b.k = "inf" THEN b.s = 1
  ELSE IF a.s # b.s THEN a.s < b.s
  ELSE IF a.s = 1 THEN MCmp(a.m, b.m) < 0
  ELSE MCmp(a.m, b.m) > 0

FLe(a, b) == a.k # "nan" /\ b.k # "nan" /\ (a = b \/ FLt(a, b))

FAbs(a) == IF a.k = "fin" THEN Mk(1, a.m) ELSE IF a.k = "inf" THEN Inf(1) ELSE NaN

(* ------ library functions: np.deg2rad, np.tan and ** on float64 --------- *)

\* pi = 3.141592653590 to the model's twelve digits
Pi == Mk(1, <<3590, 9265, 1415, 3>>)
HalfPi == Mk(1, MDivS(Pi.m, 2))
QuarterPi == Mk(1, MDivS(Pi.m, 4))

\* floor of a finite a >= 0, as a number
Floor(a) == IF Len(a.m) <= 3 THEN Zero ELSE Mk(1, <<0, 0, 0>> \o Drop3(a.m))

\* the sum of the numbers s[i..j], the range halved at each step
RECURSIVE Sum(_, _, _)
Sum(s, i, j) ==
  IF i > j THEN Zero
  ELSE IF i = j THEN s[i]
  ELSE LET mid == (i + j) \div 2 IN FAdd(Sum(s, i, mid), Sum(s, mid + 1, j))

\* the terms t, -t x2/((n+1)(n+2)), ... of the sine and cosine series, until
\* they vanish at the model's precision
RECURSIVE SinTerms(_, _, _)
SinTerms(t, x2, n) ==
  IF t = Zero THEN <<>>
  ELSE <<t>> \o SinTerms(Mk(-t.s, MDivS(FMul(t, x2).m, (n + 1) * (n + 2))),
                         x2, n + 2)

\* sin x and cos x for 0 <= x <= pi/4: x - x^3/3! + ..., 1 - x^2/2! + ...
SinSmall(x) == LET ts == SinTerms(x, FMul(x, x), 1) IN Sum(ts, 1, Len(ts))
CosSmall(x) == LET ts == SinTerms(FromInt(1), FMul(x, x), 0) IN Sum(ts, 1, Len(ts))

\* the sine and the cosine of r, 0 <= r < pi, by reflection into [0, pi/4]
SinCos(r) ==
  IF FLe(r, QuarterPi) THEN [sin |-> SinSmall(r), cos |-> CosSmall(r)]
  ELSE IF FLe(r, HalfPi)
       THEN LET y == FSub(HalfPi, r) IN [sin |-> CosSmall(y), cos |-> SinSmall(y)]
  ELSE IF FLe(r, FAdd(HalfPi, QuarterPi))
       THEN LET y == FSub(r, HalfPi)
            IN [sin |-> CosSmall(y), cos |-> FNeg(SinSmall(y))]
  ELSE LET y == FSub(Pi, r) IN [sin |-> SinSmall(y), cos |-> FNeg(CosSmall(y))]

\* np.tan: nan for an infinite or nan argument; odd; period pi
Tan(x) ==
  IF x.k # "fin" THEN NaN
  ELSE LET ax == FAbs(x)
           r  == FSub(ax, FMul(Floor(FDiv(ax, Pi)), Pi))
           sc == SinCos(r)
           t  == FDiv(sc.sin, sc.cos)
       IN IF x.s = 1 THEN t ELSE FNeg(t)

\* np.deg2rad: x * pi / 180
Deg2Rad(x) == FDiv(FMul(x, Pi), FromInt(180))

\* the terms t, t y/(n+1), ... of the exponential series
RECURSIVE ExpTerms(_, _, _)
ExpTerms(t, y, n) ==
  IF t = Zero THEN <<>>
  ELSE <<t>> \o ExpTerms(Mk(1, MDivS(FMul(t, y).m, n + 1)), y, n + 1)

Sq(x) == FMul(x, x)

\* e^y for y >= 0: (1 + r + r^2/2! + ...)^16 with r = y / 16
ExpPos(y) ==
  LET ts == ExpTerms(FromInt(1), Mk(1, MDivS(y.m, 16)), 0)
  IN Sq(Sq(Sq(Sq(Sum(ts, 1, Len(ts))))))

\* e^y, as 1 / e^(-y) for y < 0
Exp(y) == IF y.s = 1 THEN ExpPos(y) ELSE FDiv(FromInt(1), ExpPos(FNeg(y)))

\* the terms pw/n, pw u2/(n+2), ... of the artanh series
RECURSIVE AtanhTerms(_, _, _)
AtanhTerms(pw, u2, n) ==
  IF pw = Zero THEN <<>>
  ELSE <<Mk(pw.s, MDivS(pw.m, n))>> \o AtanhTerms(FMul(pw, u2), u2, n + 2)

\* ln 2 = 0.693147180560, sqrt(1/2) = 0.7071..., sqrt(2) = 1.4142...
Ln2 == Mk(1, <<560, 4718, 6931>>)
SqrtHalf == Dec4(7071)
Sqrt2 == Dec4(14142)

\* ln b for b > 0: b is doubled or halved into [sqrt(1/2), sqrt(2)], and there
\* ln b = 2 artanh((b - 1) / (b + 1)); k counts the halvings
RECURSIVE LnRed(_, _)
LnRed(b, k) ==
  IF FLt(b, SqrtHalf) THEN LnRed(FAdd(b, b), k - 1)
  ELSE IF FLt(Sqrt2, b) THEN LnRed(Mk(1, MDivS(b.m, 2)), k + 1)
  ELSE LET u == FDiv(FSub(b, FromInt(1)), FAdd(b, FromInt(1)))
           ts == AtanhTerms(u, FMul(u, u), 1)
       IN FAdd(FMul(FromInt(2), Sum(ts, 1, Len(ts))), FMul(FromInt(k), Ln2))

Ln(b) == LnRed(b, 0)

\* b ** y on float64 for a non-integer y: nan for b < 0, 0 for b = 0 (y > 0),
\* 1 for b = 1, e^(y ln b) otherwise
Pow(b, y) ==
  IF b.k # "fin" \/ y.k # "fin" THEN NaN
  ELSE IF b = Zero THEN Zero
  ELSE IF b.s = -1 THEN NaN
  ELSE Exp(FMul(y, Ln(b)))

(* ------------------------- the script's constants ----------------------- *)

\* Saemundsson's defaults (line 26): T=10.0, P=101.0, h_min=-1.0, h_max=90.0
T_default == FromInt(10)
P_default == FromInt(101)
h_min_default == FromInt(-1)
h_max_default == FromInt(90)

\* atmos_cond (lines 56-59), without the colours
atmos_cond ==
  << [T |-> FromInt(10),  P |-> FromInt(101)],
     [T |-> FromInt(-30), P |-> FromInt(101)],
     [T |-> FromInt(10),  P |-> FromInt(70)],
     [T |-> FromInt(-30), P |-> FromInt(70)] >>

\* the barometric constants (lines 83-90)
T_0 == FAdd(Dec4(2731500), FromInt(10))
p_0 == FromInt(101)
g == Dec4(98100)
R_d == FromInt(287)
tau == Dec4(65)

(* ------------------------------ the inputs ------------------------------ *)

MaxLen == 2
MaxArrays == 4
MaxCalls == 2

\* an elevation given in hundredths of a degree
Elev(c) == Dec4(c * 100)

\* elevations tried as elements of the input array: below every lower bound,
\* the zero of h + 5.11, the horizon, the zenith, above every upper bound
HGrid == {-2000, -511, 0, 9000, 9500}

\* the clip bounds tried, in hundredths of a degree: the defaults, the dotted
\* curves' h_min = -20.0, and a narrower pair
ClipBounds == {<<-100, 9000>>, <<-2000, 9000>>, <<0, 4500>>}

ElevSeqs == UNION {[1..n -> {Elev(c) : c \in HGrid}] : n \in 1..MaxLen}

ArrIds == 1..MaxArrays

VARIABLES
  heap,       \* array id -> the array's elements (<<>> when not allocated)
  alloc,      \* the ids of the live arrays
  pc,         \* the line the script is at
  sol_elev,   \* module level: the elevation array (an id)
  elev0,      \* history: the elements of sol_elev as line 53 built them
  T, P, h_min, h_max,   \* Saemundsson's parameters during a call
  h,          \* Saemundsson's h: the caller's array, then the clipped copy
  R,          \* Saemundsson's R (an id, 0 when unbound)
  ret,        \* the array a call returned, until plt.plot has drawn it
  calls,      \* history: the number of calls that have returned
  z, p        \* module level: the altitude and pressure arrays (ids)

vars == <<heap, alloc, pc, sol_elev, elev0, T, P, h_min, h_max, h, R, ret,
          calls, z, p>>

NewId(al) == CHOOSE i \in ArrIds \ al : \A j \in ArrIds \ al : i <= j

(* ----------------------------- Saemundsson ------------------------------ *)

FMax(x, y) == IF FLt(x, y) THEN y ELSE x
FMin(x, y) == IF FLt(y, x) THEN y ELSE x

\* clip with a slip: the upper bound is not applied
clipLowerOnly(s, a, b) == [i \in 1..Len(s) |-> FMax(s[i], a)]

\* clip with a slip: the lower bound is not applied
clipUpperOnly(s, a, b) == [i \in 1..Len(s) |-> FMin(s[i], b)]

\* clip with a slip: one scalar, the first element, clipped for the whole array
clipScalar(s, a, b) == [i \in 1..Len(s) |-> FMin(FMax(s[1], a), b)]

\* ndarray.clip(min=a, max=b): a new array, minimum(maximum(x, a), b)
clip(s, a, b) == [i \in 1..Len(s) |-> FMin(FMax(s[i], a), b)]

\* line 40 with a slip: the clip writes into the array it is given
\* (h.clip(min=h_min, max=h_max, out=h))
Line40InPlace(hp, al, href, a, b) ==
  [heap |-> [hp EXCEPT ![href] = clip(hp[href], a, b)],
   alloc |-> al,
   h |-> href]

\* line 40, h = h.clip(min=h_min, max=h_max): the result is a new array and
\* the name h is bound to it; the array h named before is left as it was
Line40(hp, al, href, a, b) ==
  LET n == NewId(al)
  IN [heap |-> [hp EXCEPT ![n] = clip(hp[href], a, b)],
      alloc |-> al \cup {n},
      h |-> n]

\* line 41, one element: 1.02 / tan(deg2rad(x + 10.3 / (x + 5.11)))
Line41(x) ==
  FDiv(Dec4(10200),
       Tan(Deg2Rad(FAdd(x, FDiv(Dec4(103000), FAdd(x, Dec4(51100)))))))

\* every value an element can have after the clip
ElevDom == {Elev(c) : c \in HGrid \cup {b[1] : b \in ClipBounds}
                                  \cup {b[2] : b \in ClipBounds}}

\* line 41 over ElevDom, evaluated once
R41 == [x \in ElevDom |-> Line41(x)]

\* line 42 with a slip: two digits of the constant transposed (0.0019729)
Line42Transposed(x) == FAdd(x, Dec8(197290))

\* line 42, one element: R += 0.0019279
Line42(x) == FAdd(x, Dec8(192790))

\* line 44 with a slip: the factor scales the tangent term only, not the sum
Line44TangentOnly(x, f) ==
  FAdd(FMul(FSub(x, Dec8(192790)), f), Dec8(192790))

\* line 44: the factor (P / 101.0) * (283.0 / (273.0 + T)), and one element
Factor(Tv, Pv) ==
  FMul(FDiv(Pv, FromInt(101)), FDiv(FromInt(283), FAdd(FromInt(273), Tv)))
Line44(x, f) == FMul(x, f)

\* the factor for every (T, P) a call is given, evaluated once
FactorDom == {<<atmos_cond[i].T, atmos_cond[i].P>> : i \in 1..Len(atmos_cond)}
               \cup {<<T_default, P_default>>}
FactorTab == [c \in FactorDom |-> Factor(c[1], c[2])]

\* line 45 with a slip: the arc minutes are returned unconverted
Line45Arcmin(x) == x

\* line 45: the scalar (1.0 / 60.0), and one element: R * (1.0 / 60.0)
ArcminToDeg == FDiv(FromInt(1), FromInt(60))
Line45(x) == FMul(x, ArcminToDeg)

\* lines 41 to 44 on a whole array, as the three statements apply them
Line41Arr(s) == [i \in 1..Len(s) |-> R41[s[i]]]
Line42Arr(s) == [i \in 1..Len(s) |-> Line42(s[i])]
Line44Arr(s, Tv, Pv) ==
  LET f == FactorTab[<<Tv, Pv>>] IN [i \in 1..Len(s) |-> Line44(s[i], f)]
Line45Arr(s) == [i \in 1..Len(s) |-> Line45(s[i])]

\* the value of a call, as a function of its arguments
Saemundsson(s, Tv, Pv, a, b) ==
  Line45Arr(Line44Arr(Line42Arr(Line41Arr(clip(s, a, b))), Tv, Pv))

(* ------------------------- the barometric formula ----------------------- *)

\* np.linspace(start, stop, num): start + i * step, the last element stop
linspace(start, stop, num) ==
  LET step == FDiv(FSub(stop, start), FromInt(num - 1))
  IN [i \in 1..num |->
        IF i = num THEN stop ELSE FAdd(FMul(FromInt(i - 1), step), start)]

z_num == 1000
z_series == linspace(Zero, FromInt(31000), z_num)

\* line 93: the scalar exponent g / (R_d * tau), the base (T_0 - tau * z) / T_0
\* of one element, and one element
\* p_0 * ((T_0 - tau * z) / T_0) ** (g / (R_d * tau)).  The two slips of the
\* base: the division by 273.15 instead of T_0, and + for -
Exponent == FDiv(g, FMul(R_d, tau))
Base93Celsius(x) == FDiv(FSub(T_0, FMul(tau, x)), Dec4(2731500))
Base93Warming(x) == FDiv(FAdd(T_0, FMul(tau, x)), T_0)
Base93(x) == FDiv(FSub(T_0, FMul(tau, x)), T_0)
Line93(x) == FMul(p_0, Pow(Base93(x), Exponent))

\* the altitudes of line 92 as a set, and the base and line 93 over them,
\* evaluated once
ZDom == {z_series[i] : i \in 1..z_num}
B93 == [x \in ZDom |-> Base93(x)]
P93 == [x \in ZDom |-> Line93(x)]
Line93Arr(s) == [i \in 1..Len(s) |-> P93[s[i]]]

(* ------------------------------ the script ------------------------------ *)

Init ==
  \E s \in ElevSeqs :
    /\ heap = [i \in ArrIds |-> IF i = 1 THEN s ELSE <<>>]
    /\ alloc = {1}
    /\ sol_elev = 1
    /\ elev0 = s
    /\ pc = "loop"
    /\ T = Zero /\ P = Zero /\ h_min = Zero /\ h_max = Zero
    /\ h = 0 /\ R = 0 /\ ret = 0 /\ z = 0 /\ p = 0
    /\ calls = 0

\* lines 64 and 67: a call Saemundsson(sol_elev, T=.., P=.., h_min=..); the
\* parameter h names the caller's array
Call(c, b) ==
  /\ pc = "loop"
  /\ calls < MaxCalls
  /\ pc' = "L40"
  /\ T' = c.T /\ P' = c.P
  /\ h_min' = Elev(b[1]) /\ h_max' = Elev(b[2])
  /\ h' = sol_elev
  /\ UNCHANGED <<heap, alloc, sol_elev, elev0, R, ret, calls, z, p>>

L40 ==
  /\ pc = "L40"
  /\ LET r == Line40(heap, alloc, h, h_min, h_max)
     IN heap' = r.heap /\ alloc' = r.alloc /\ h' = r.h
  /\ pc' = "L41"
  /\ UNCHANGED <<sol_elev, elev0, T, P, h_min, h_max, R, ret, calls, z, p>>

L41 ==
  /\ pc = "L41"
  /\ LET n == NewId(alloc)
     IN /\ heap' = [heap EXCEPT ![n] = Line41Arr(heap[h])]
        /\ alloc' = alloc \cup {n}
        /\ R' = n
  /\ pc' = "L42"
  /\ UNCHANGED <<sol_elev, elev0, T, P, h_min, h_max, h, ret, calls, z, p>>

\* R += 0.0019279, in place
L42 ==
  /\ pc = "L42"
  /\ heap' = [heap EXCEPT ![R] = Line42Arr(heap[R])]
  /\ pc' = "L44"
  /\ UNCHANGED <<alloc, sol_elev, elev0, T, P, h_min, h_max, h, R, ret, calls, z, p>>

\* R *= (P / 101.0) * (283.0 / (273.0 + T)), in place
L44 ==
  /\ pc = "L44"
  /\ heap' = [heap EXCEPT ![R] = Line44Arr(heap[R], T, P)]
  /\ pc' = "L45"
  /\ UNCHANGED <<alloc, sol_elev, elev0, T, P, h_min, h_max, h, R, ret, calls, z, p>>

\* the arrays among ids that no module-level name refers to
Unreferenced(ids) == ids \ {sol_elev, z, p}

\* return R * (1.0 / 60.0): a new array; the locals h and R go out of scope and
\* the arrays only they referred to are freed
L45 ==
  /\ pc = "L45"
  /\ LET n == NewId(alloc)
         dead == Unreferenced({h, R})
     IN /\ heap' = [i \in ArrIds |->
                      IF i = n THEN Line45Arr(heap[R])
                      ELSE IF i \in dead THEN <<>> ELSE heap[i]]
        /\ alloc' = (alloc \cup {n}) \ dead
        /\ ret' = n
  /\ h' = 0 /\ R' = 0
  /\ calls' = calls + 1
  /\ pc' = "plot"
  /\ UNCHANGED <<sol_elev, elev0, T, P, h_min, h_max, z, p>>

\* plt.plot(sol_elev, <the returned array>): both are read, the returned
\* array is dropped, and the loop goes on
Plot ==
  /\ pc = "plot"
  /\ heap' = [heap EXCEPT ![ret] = <<>>]
  /\ alloc' = alloc \ {ret}
  /\ ret' = 0
  /\ T' = Zero /\ P' = Zero /\ h_min' = Zero /\ h_max' = Zero
  /\ pc' = "loop"
  /\ UNCHANGED <<sol_elev, elev0, h, R, calls, z, p>>

\* line 92: z = np.linspace(0.0, 31000.0, 1000)
L92 ==
  /\ pc = "loop"
  /\ LET n == NewId(alloc)
     IN /\ heap' = [heap EXCEPT ![n] = z_series]
        /\ alloc' = alloc \cup {n}
        /\ z' = n
  /\ pc' = "L93"
  /\ UNCHANGED <<sol_elev, elev0, T, P, h_min, h_max, h, R, ret, calls, p>>

\* line 93: p = p_0 * ((T_0 - tau * z) / T_0) ** (g / (R_d * tau))
L93 ==
  /\ pc = "L93"
  /\ LET n == NewId(alloc)
     IN /\ heap' = [heap EXCEPT ![n] = Line93Arr(heap[z])]
        /\ alloc' = alloc \cup {n}
        /\ p' = n
  /\ pc' = "done"
  /\ UNCHANGED <<sol_elev, elev0, T, P, h_min, h_max, h, R, ret, calls, z>>

Next ==
  \/ \E i \in 1..Len(atmos_cond), b \in ClipBounds : Call(atmos_cond[i], b)
  \/ L40 \/ L41 \/ L42 \/ L44 \/ L45 \/ Plot
  \/ L92 \/ L93

Spec == Init /\ [][Next]_vars

(* ------------------------------ the claims ------------------------------ *)

\* x and y are the same value, or finite and no further apart than tol
Near(x, y, tol) ==
  x = y \/ (IsFin(x) /\ IsFin(y) /\ FLe(FAbs(FSub(x, y)), tol))

InRange(x, a, b) == FLe(a, x) /\ FLe(x, b)

\* the value Saemundsson returns for the one-element array <<x>>
Saem1(x, Tv, Pv, a, b) == Head(Saemundsson(<<x>>, Tv, Pv, a, b))

\* a call has returned: ret is its result, elev0 the elements it was given and
\* T, P, h_min, h_max its other arguments
Returned == pc = "plot"

\* the clip as the claim words it: each element below a replaced by a, each
\* element above b by b
ClaimClip(s, a, b) ==
  [i \in 1..Len(s) |->
     IF FLt(s[i], a) THEN a ELSE IF FLt(b, s[i]) THEN b ELSE s[i]]

\* C1: a call on h returns, element by element, what a call on clip(h, a, b)
\* returns with the same bounds; an element below a gives the result of a, an
\* element above b the result of b; and every call returns
C1_Clipping ==
  Returned =>
    /\ heap[ret] = Saemundsson(ClaimClip(elev0, h_min, h_max), T, P, h_min, h_max)
    /\ \A i \in 1..Len(elev0) :
         /\ FLt(elev0[i], h_min) => heap[ret][i] = Saem1(h_min, T, P, h_min, h_max)
         /\ FLt(h_max, elev0[i]) => heap[ret][i] = Saem1(h_max, T, P, h_min, h_max)

C1_Witness ==
  /\ Returned
  /\ \E i \in 1..Len(elev0) : FLt(elev0[i], h_min)
  /\ \E i \in 1..Len(elev0) : FLt(h_max, elev0[i])

\* the end-to-end case: T = 10, P = 101, h_min = -20, and the element i is 0.0
C2_Case(i) ==
  /\ Returned
  /\ T = FromInt(10) /\ P = FromInt(101) /\ h_min = FromInt(-20)
  /\ elev0[i] = Zero

\* ((1.02 / tan(radians(0 + 10.3/5.11)) + 0.0019279) * (101/101) * (283/283)) / 60
C2_Value ==
  FDiv(FMul(FMul(FAdd(FDiv(Dec4(10200),
                           Tan(Deg2Rad(FAdd(Zero, FDiv(Dec4(103000), Dec4(51100)))))),
                      Dec8(192790)),
                 FDiv(FromInt(101), FromInt(101))),
            FDiv(FromInt(283), FromInt(283))),
       FromInt(60))

C2_Tol == Dec4(10)

\* C2 as claimed: the end-to-end call returns 0.561 within 1e-3
C2_Original ==
  \A i \in 1..Len(elev0) : C2_Case(i) => Near(heap[ret][i], Dec4(5610), C2_Tol)

\* C2, amended: the end-to-end call returns 0.483 within 1e-3, which is the
\* value of the formula the claim gives
C2_EndToEnd ==
  \A i \in 1..Len(elev0) :
     C2_Case(i) => /\ Near(heap[ret][i], Dec4(4830), C2_Tol)
                   /\ Near(heap[ret][i], C2_Value, Dec8(1))

C2_Witness == \E i \in 1..Len(elev0) : C2_Case(i)

\* C3 as claimed: for h1 <= h2 in [0, 90] given to one call, the results
\* satisfy result(h1) >= result(h2) >= 0
C3_Original ==
  Returned =>
    \A i, j \in 1..Len(elev0) :
       (FLe(Zero, elev0[i]) /\ FLe(elev0[i], elev0[j]) /\ FLe(elev0[j], FromInt(90)))
         => FLe(heap[ret][j], heap[ret][i]) /\ FLe(Zero, heap[ret][j])

\* the case of C3 that fails: an element 90.0 that the clip leaves at 90.0
C3_Witness ==
  /\ Returned
  /\ \E i \in 1..Len(elev0) :
        elev0[i] = FromInt(90) /\ h_max = FromInt(90) /\ FLt(heap[ret][i], Zero)

ZenithTol == Dec8(10)

\* C4: where h is 90.0 after the clip, R is 0 within 1e-7 arc minutes once
\* 0.0019279 has been added (before the factor is applied), and the call
\* returns 0 within 1e-7 degrees, whatever T and P
C4_ZenithCalibration ==
  /\ pc = "L44" =>
       \A i \in 1..Len(heap[h]) :
          heap[h][i] = FromInt(90) => Near(heap[R][i], Zero, ZenithTol)
  /\ Returned =>
       \A i \in 1..Len(elev0) :
          (elev0[i] = FromInt(90) /\ InRange(FromInt(90), h_min, h_max))
            => Near(heap[ret][i], Zero, ZenithTol)

C4_Witness ==
  /\ Returned
  /\ T # T_default /\ P # P_default
  /\ \E i \in 1..Len(elev0) :
        elev0[i] = FromInt(90) /\ InRange(FromInt(90), h_min, h_max)

\* the result of the reference call (T = 10, P = 101) on the element i,
\* multiplied by the factor of the call that has returned
C5_Scaled(i) ==
  FMul(Saem1(elev0[i], T_default, P_default, h_min, h_max), FactorTab[<<T, P>>])

\* C5 as claimed: the result equals the reference result times the factor
C5_Original ==
  Returned =>
    \A i \in 1..Len(elev0) :
       InRange(elev0[i], h_min, h_max) => heap[ret][i] = C5_Scaled(i)

ScalingTol == Mk(1, <<10>>)

\* C5, amended: the result equals the reference result times the factor up to
\* the rounding of the last digits (1e-11 degrees here); the factor of the
\* reference call is exactly 1; and the factor multiplies the sum of the
\* tangent term and 0.0019279
C5_Scaling ==
  /\ FactorTab[<<T_default, P_default>>] = FromInt(1)
  /\ pc = "L45" =>
       \A i \in 1..Len(heap[h]) :
          heap[R][i] = FMul(FAdd(R41[heap[h][i]], Dec8(192790)), FactorTab[<<T, P>>])
  /\ Returned =>
       \A i \in 1..Len(elev0) :
          InRange(elev0[i], h_min, h_max)
            => Near(heap[ret][i], C5_Scaled(i), ScalingTol)

\* a call off the reference conditions whose result differs in the last digit
\* from the scaled reference result
C5_Witness ==
  /\ Returned
  /\ T # T_default /\ P # P_default
  /\ \E i \in 1..Len(elev0) :
        /\ InRange(elev0[i], h_min, h_max)
        /\ IsFin(heap[ret][i])
        /\ heap[ret][i] # C5_Scaled(i)

\* C6: the caller's array holds the values it was built with, in every
\* state; the arrays a call clips into and updates in place are not the
\* caller's; and what a call returns is determined by its arguments, however
\* many calls came before
C6_NoSideEffects ==
  /\ sol_elev \in alloc
  /\ heap[sol_elev] = elev0
  /\ pc \in {"L41", "L42", "L44", "L45"} => h # sol_elev
  /\ pc \in {"L42", "L44", "L45"} => R \notin {sol_elev, h}
  /\ Returned => heap[ret] = Saemundsson(elev0, T, P, h_min, h_max)

\* a later call has clipped some element and updated R in place
C6_Witness ==
  /\ pc = "L45"
  /\ calls >= 1
  /\ heap[h] # elev0
  /\ heap[R] # heap[h]

\* C7: the result has the length of the input, and its element i is what the
\* call returns for the one-element array of the input's element i
C7_ElementWise ==
  Returned =>
    /\ Len(heap[ret]) = Len(elev0)
    /\ \A i \in 1..Len(elev0) :
         heap[ret][i] = Saem1(elev0[i], T, P, h_min, h_max)

C7_Witness ==
  /\ Returned
  /\ Len(elev0) >= 2
  /\ heap[ret][1] # heap[ret][2]

\* C8: the altitude series starts at 0.0 and the pressure there is exactly
\* p_0 = 101.0
C8_PressureAtZero ==
  pc = "done" =>
    /\ heap[z][1] = Zero
    /\ p_0 = FromInt(101)
    /\ heap[p][1] = p_0

C8_Witness == pc = "done" /\ Len(heap[p]) = z_num /\ Len(heap[z]) = z_num

\* C9: over the altitude series, which rises from 0 to 31000, the base is
\* positive and the pressure is positive and strictly decreasing
C9_StrictlyDecreasing ==
  pc = "done" =>
    /\ heap[z][1] = Zero /\ heap[z][Len(heap[z])] = FromInt(31000)
    /\ \A i \in 1..Len(heap[z]) :
         /\ FLt(Zero, B93[heap[z][i]])
         /\ FLt(Zero, heap[p][i])
         /\ i < Len(heap[z]) =>
              /\ FLt(heap[z][i], heap[z][i + 1])
              /\ FLt(heap[p][i + 1], heap[p][i])

C9_Witness ==
  /\ pc = "done"
  /\ Len(heap[p]) = z_num
  /\ FLt(heap[p][z_num], heap[p][1])

DefaultClip == h_min = h_min_default /\ h_max = h_max_default

\* C10: under the default clip range the denominator h + 5.11 is at least
\* 4.11, the quotient 1.02 / tan(..) is finite, and every element returned is
\* finite
C10_NoSingularity ==
  DefaultClip =>
    /\ pc = "L41" =>
         \A i \in 1..Len(heap[h]) :
            FLe(Dec4(41100), FAdd(heap[h][i], Dec4(51100)))
    /\ pc \in {"L42", "L44", "L45"} =>
         \A i \in 1..Len(heap[R]) : IsFin(heap[R][i])
    /\ Returned => \A i \in 1..Len(heap[ret]) : IsFin(heap[ret][i])

\* the default clip applied to an array that holds -5.11, the zero of h + 5.11
C10_Witness ==
  /\ Returned
  /\ DefaultClip
  /\ \E i \in 1..Len(elev0) : elev0[i] = Dec4(-51100)

====
